---- MODULE Spec2Model ----
(***************************************************************************)
(* Photo ingestion and enrichment pipeline of track_me (myphoto app).      *)
(*                                                                         *)
(* The catalog (table "photos") is a sequence of rows, row i having        *)
(* primary key i.  A nullable column holds <<>> for NULL/None and <<v>>    *)
(* for the value v.  Coordinates are integers in micro-degrees, which is   *)
(* the precision of the DecimalField columns (decimal_places=6).           *)
(***************************************************************************)
EXTENDS Integers, Sequences, FiniteSets, TLC

VARIABLES files,    \* the photo tree: path -> content of the file
          catalog,  \* the rows of table "photos"
          last,     \* the last finished process_single_photo call
          run,      \* the process_directory call in progress or just returned
          wk,       \* concurrent ingestion workers: position and local Photo
          changes,  \* number of file changes so far
          probe     \* the geocode_photos run in progress or just returned, or
                    \* the tree _discover_photo_files is called on

vars == <<files, catalog, last, run, wk, changes, probe>>

-----------------------------------------------------------------------------
(* Bounds *)

\* how many times the files of the tree are changed after the first scan
MaxChanges == 1
\* how many rows the table may hold
MaxRows == 3

\* the relative paths of the tree, and the concurrent ingestion runs
Paths == {1, 2}
Workers == {1, 2}

-----------------------------------------------------------------------------
(* Optional values *)

None == <<>>
Some(v) == <<v>>
IsNone(x) == x = <<>>
NotNone(x) == x # <<>>
Val(x) == x[1]

-----------------------------------------------------------------------------
(* Raw EXIF values and files *)

\* a plain int/float value, u in micro-degrees (centimetres for altitude)
Num(u) == [shape |-> "num", d |-> 0, m |-> 0, s |-> u]
\* a 3-tuple (degrees, minutes, seconds)
Dms(d, m, s) == [shape |-> "dms", d |-> d, m |-> m, s |-> s]
\* the same triple after a JSON round trip: a list, no longer a tuple
DmsList(d, m, s) == [shape |-> "list", d |-> d, m |-> m, s |-> s]
\* any other shape: a string, a 2-tuple, a rational object
Other == [shape |-> "other", d |-> 0, m |-> 0, s |-> 0]

\* the value of the "GPSInfo" key as getexif() gives it: the offset of the GPS
\* directory in the file, an int
GpsOffset(n) ==
    [kind |-> "int", n |-> n,
     GPSLatitude |-> None, GPSLongitude |-> None, GPSAltitude |-> None]
\* the value of the "GPSInfo" key as a nested mapping: the three keys the claims
\* speak of, and n other keys
GpsDict(lat, lon, alt, n) ==
    [kind |-> "dict", n |-> n,
     GPSLatitude |-> lat, GPSLongitude |-> lon, GPSAltitude |-> alt]

\* bool(value): an int other than 0, a mapping with at least one key
Truthy(v) ==
    IF v.kind = "int" THEN v.n # 0
    ELSE \/ v.n # 0
         \/ NotNone(v.GPSLatitude) \/ NotNone(v.GPSLongitude) \/ NotNone(v.GPSAltitude)

\* the exif_dict built by _extract_exif_metadata: the keys the pipeline reads;
\* json is whether every value of the mapping is JSON serializable
Tags(gi, lat, lon, alt, dt, dto, make, json) ==
    [GPSInfo |-> gi, GPSLatitude |-> lat, GPSLongitude |-> lon, GPSAltitude |-> alt,
     DateTime |-> dt, DateTimeOriginal |-> dto, Make |-> make, json |-> json]

\* the empty mapping {}
EmptyDict == Tags(None, None, None, None, None, None, None, TRUE)

\* a file: exif is "tags" (a tag block), "empty" (no tag block), "error" (the
\* container cannot be opened or read); img is the pHash of the decoded pixels,
\* None when the image cannot be decoded
File(exif, tags, img) == [exif |-> exif, tags |-> tags, img |-> img]

TokyoDms == Tags(Some(GpsOffset(722)), Some(Dms(35, 42, 12)), Some(Dms(139, 46, 27)),
                 Some(Num(1200)), Some("2025:02:04 03:06:35"), Some("2025:02:04 12:06:35"),
                 Some("Google"), TRUE)
SaigonNum == Tags(Some(GpsOffset(722)), Some(Num(10771247)), Some(Num(106693597)),
                  None, None, Some("2015:01:10 09:00:00"), Some("Apple"), TRUE)
NoGpsTags == Tags(None, None, None, None, Some("2020:04:02 18:10:27"), None,
                  Some("Apple"), TRUE)
LonUnparseable == Tags(Some(GpsOffset(722)), Some(Dms(35, 42, 12)), Some(Other),
                       Some(Other), None, None, Some("Google"), TRUE)
Rational == Tags(Some(GpsOffset(722)), Some(Num(10771247)), Some(Num(106693597)),
                 None, None, None, Some("Canon"), FALSE)

\* the position is in the nested mapping under "GPSInfo" and nowhere else
NestedGps == Tags(Some(GpsDict(Some(Dms(35, 42, 12)), Some(Dms(139, 46, 27)),
                               Some(Num(1200)), 1)),
                  None, None, None, Some("2025:02:04 03:06:35"), None,
                  Some("Google"), TRUE)

\* a photo taken with a phone: coordinates, capture time, decodable pixels
GoodFile == File("tags", TokyoDms, Some("c3d1a5a5e1b0f0c7"))
\* a screenshot: no tag block
Screenshot == File("empty", EmptyDict, Some("f0f0e1e1c3c38787"))
\* coordinates in the tags, pixels that do not decode
NoPixels == File("tags", SaigonNum, None)
\* a damaged file: neither the tags nor the pixels can be read
Damaged == File("error", EmptyDict, None)

\* a photo taken elsewhere, its coordinates written as plain numbers
ElsewhereFile == File("tags", SaigonNum, Some("9b64c2b0a1d3e4f5"))

\* a photo whose position is in its nested GPS mapping
NestedFile == File("tags", NestedGps, Some("c3d1a5a5e1b0f0c7"))

FileContents ==
    { GoodFile,
      ElsewhereFile,
      NoPixels,
      File("tags", NoGpsTags, Some("c3d1a5a5e1b0f0c7")),
      File("tags", LonUnparseable, Some("9b64c2b0a1d3e4f5")),
      File("tags", Rational, Some("9b64c2b0a1d3e4f5")),
      Screenshot,
      Damaged }

\* no file at the path
NoFile == File("missing", EmptyDict, None)

\* what one pass sees of a file it opens twice: the tags at the first open
\* (line 201), the pixels at the second (line 307)
Seen(first, second) == File(first.exif, first.tags, second.img)

-----------------------------------------------------------------------------
(* Paths: a path is its rank in the lexicographic order of the paths.  The    *)
(* first is a file of the base directory, the others are files of its         *)
(* directory 2025-02: the files of one directory are next to each other in    *)
(* the order, after a file of the base directory whose name sorts before      *)
(* the directory's                                                            *)

Basename(p) == <<"photo", p>>
Dirname(p) == IF p = 1 THEN "" ELSE "2025-02"

-----------------------------------------------------------------------------
(* The Photo model (myphoto/models.py) *)

\* Photo(source_file=relative_path): every nullable field is None
NewPhoto(p) ==
    [id |-> None, source_file |-> p, file_name |-> None, directory |-> None,
     date_time_original_text |-> None, date_time_taken |-> None,
     gps_latitude |-> None, gps_longitude |-> None, gps_altitude |-> None,
     location |-> None, country_code |-> None, geo_coded_at |-> None,
     h3_res_15 |-> None, h3_res_12 |-> None, h3_res_9 |-> None,
     h3_res_6 |-> None, h3_res_3 |-> None,
     perceptual_hash |-> None, exif_meta |-> None]

has_gps(photo) == NotNone(photo.gps_latitude) /\ NotNone(photo.gps_longitude)

has_h3_indexes(photo) == NotNone(photo.h3_res_9)

\* edge of a cell of the resolution, in micro-degrees
CellSize(res) ==
    CASE res = 3 -> 1000000
      [] res = 6 -> 100000
      [] res = 9 -> 10000
      [] res = 12 -> 1000
      [] res = 15 -> 10

\* h3.latlng_to_cell: the one cell of the resolution that holds the point
latlng_to_cell(lat, lon, res) ==
    [res |-> res, i |-> lat \div CellSize(res), j |-> lon \div CellSize(res)]

\* h3.cell_to_latlng: the centre of the cell
cell_to_latlng(cell) ==
    [lat |-> cell.i * CellSize(cell.res) + CellSize(cell.res) \div 2,
     lon |-> cell.j * CellSize(cell.res) + CellSize(cell.res) \div 2]

\* a bug: the two coarse resolutions are not computed
CalculateFineOnly(photo) ==
    IF ~has_gps(photo) THEN photo
    ELSE LET lat == Val(photo.gps_latitude)
             lon == Val(photo.gps_longitude)
         IN  [photo EXCEPT !.h3_res_15 = Some(latlng_to_cell(lat, lon, 15)),
                           !.h3_res_12 = Some(latlng_to_cell(lat, lon, 12)),
                           !.h3_res_9 = Some(latlng_to_cell(lat, lon, 9))]

calculate_h3_indexes(photo) ==
    IF ~has_gps(photo) THEN photo
    ELSE LET lat == Val(photo.gps_latitude)
             lon == Val(photo.gps_longitude)
         IN  [photo EXCEPT !.h3_res_15 = Some(latlng_to_cell(lat, lon, 15)),
                           !.h3_res_12 = Some(latlng_to_cell(lat, lon, 12)),
                           !.h3_res_9 = Some(latlng_to_cell(lat, lon, 9)),
                           !.h3_res_6 = Some(latlng_to_cell(lat, lon, 6)),
                           !.h3_res_3 = Some(latlng_to_cell(lat, lon, 3))]

-----------------------------------------------------------------------------
(* PhotoProcessingService: the steps of one pass *)

\* a bug: the spatial index is required of every record
IsFullyProcessedNeedsIndex(photo) ==
    has_h3_indexes(photo) /\ NotNone(photo.perceptual_hash)

\* a bug: the hash is not required of a record with coordinates
IsFullyProcessedIndexOnly(photo) ==
    IF has_gps(photo) THEN has_h3_indexes(photo) ELSE NotNone(photo.perceptual_hash)

_is_fully_processed(photo) ==
    LET has_hash == NotNone(photo.perceptual_hash)
    IN  IF has_gps(photo) THEN has_h3_indexes(photo) /\ has_hash ELSE has_hash

_extract_basic_info(photo, p) ==
    [photo EXCEPT !.file_name = Some(Basename(p)), !.directory = Some(Dirname(p))]

\* a bug: the precedence of the two tags is the other way round
ExifPrefersOriginal(photo, file) ==
    CASE file.exif = "tags" ->
           [photo EXCEPT
              !.exif_meta = Some(file.tags),
              !.date_time_original_text =
                  IF NotNone(file.tags.DateTimeOriginal) THEN file.tags.DateTimeOriginal
                  ELSE IF NotNone(file.tags.DateTime)
                       THEN file.tags.DateTime
                       ELSE @]
      [] file.exif = "empty" -> photo
      [] OTHER -> [photo EXCEPT !.exif_meta = Some(EmptyDict)]

_extract_exif_metadata(photo, file) ==
    CASE file.exif = "tags" ->
           [photo EXCEPT
              !.exif_meta = Some(file.tags),
              !.date_time_original_text =
                  IF NotNone(file.tags.DateTime) THEN file.tags.DateTime
                  ELSE IF NotNone(file.tags.DateTimeOriginal)
                       THEN file.tags.DateTimeOriginal
                       ELSE @]
      [] file.exif = "empty" -> photo
      [] OTHER -> [photo EXCEPT !.exif_meta = Some(EmptyDict)]

\* degrees + minutes/60 + seconds/3600, to the micro-degree
_parse_gps_coordinate(c) ==
    CASE c.shape = "num" -> Some(c.s)
      [] c.shape = "dms" -> Some(c.d * 1000000 + ((c.m * 60 + c.s) * 5000 + 9) \div 18)
      [] OTHER -> None

\* a bug: each coordinate is written as soon as it parses
ExtractWritesEach(photo) ==
    IF IsNone(photo.exif_meta) \/ photo.exif_meta = Some(EmptyDict) THEN photo
    ELSE LET exif_data == Val(photo.exif_meta)
         IN  IF IsNone(exif_data.GPSInfo) \/ ~Truthy(Val(exif_data.GPSInfo)) THEN photo
             ELSE IF IsNone(exif_data.GPSLatitude) \/ IsNone(exif_data.GPSLongitude)
                  THEN photo
                  ELSE LET lat == _parse_gps_coordinate(Val(exif_data.GPSLatitude))
                           lon == _parse_gps_coordinate(Val(exif_data.GPSLongitude))
                       IN  [photo EXCEPT
                              !.gps_latitude = IF NotNone(lat) THEN lat ELSE @,
                              !.gps_longitude = IF NotNone(lon) THEN lon ELSE @]

_extract_gps_coordinates(photo) ==
    IF IsNone(photo.exif_meta) \/ photo.exif_meta = Some(EmptyDict) THEN photo
    ELSE LET exif_data == Val(photo.exif_meta)
         IN  IF IsNone(exif_data.GPSInfo) \/ ~Truthy(Val(exif_data.GPSInfo)) THEN photo
             ELSE IF IsNone(exif_data.GPSLatitude) \/ IsNone(exif_data.GPSLongitude)
                  THEN photo
                  ELSE LET lat == _parse_gps_coordinate(Val(exif_data.GPSLatitude))
                           lon == _parse_gps_coordinate(Val(exif_data.GPSLongitude))
                           alt == exif_data.GPSAltitude
                       IN  IF IsNone(lat) \/ IsNone(lon) THEN photo
                           ELSE [photo EXCEPT
                                   !.gps_latitude = lat,
                                   !.gps_longitude = lon,
                                   !.gps_altitude =
                                       IF NotNone(alt) /\ Val(alt).shape = "num"
                                       THEN Some(Val(alt).s) ELSE @]

_calculate_h3_indexes(photo) ==
    IF has_gps(photo) THEN calculate_h3_indexes(photo) ELSE photo

\* a bug: a failed decoding clears the hash
HashClearedOnFailure(photo, file) == [photo EXCEPT !.perceptual_hash = file.img]

_calculate_perceptual_hash(photo, file) ==
    IF NotNone(file.img) THEN [photo EXCEPT !.perceptual_hash = file.img] ELSE photo

\* a bug: only the timestamp is reset
ResetTimestampOnly(photo, force_reprocess) ==
    IF force_reprocess /\ has_gps(photo)
    THEN [photo EXCEPT !.geo_coded_at = None]
    ELSE photo

\* a bug: the forced reset also drops the spatial indexes
ResetDropsIndexes(photo, force_reprocess) ==
    IF force_reprocess /\ has_gps(photo)
    THEN [photo EXCEPT !.geo_coded_at = None, !.location = None, !.country_code = None,
                       !.h3_res_15 = None, !.h3_res_12 = None, !.h3_res_9 = None,
                       !.h3_res_6 = None, !.h3_res_3 = None]
    ELSE photo

\* lines 157-161: reset geocoding when reprocessing
ResetGeocoding(photo, force_reprocess) ==
    IF force_reprocess /\ has_gps(photo)
    THEN [photo EXCEPT !.geo_coded_at = None, !.location = None, !.country_code = None]
    ELSE photo

\* lines 150-161: the in-memory Photo just before photo.save()
Extracted(photo, p, file, force_reprocess) ==
    LET a == _extract_basic_info(photo, p)
        b == _extract_exif_metadata(a, file)
        c == _extract_gps_coordinates(b)
        d == _calculate_h3_indexes(c)
        e == _calculate_perceptual_hash(d, file)
    IN  ResetGeocoding(e, force_reprocess)

-----------------------------------------------------------------------------
(* The catalog: lookup and save *)

\* the primary keys of the rows whose source_file is the path
Matching(cat, p) == {i \in 1..Len(cat) : cat[i].source_file = p}

\* JSONField: a tuple is written as a list and read back as a list
JsonValue(x) ==
    IF NotNone(x) /\ Val(x).shape = "dms"
    THEN Some(DmsList(Val(x).d, Val(x).m, Val(x).s)) ELSE x

\* the nested mapping goes through the same encoder
JsonNested(x) ==
    IF IsNone(x) THEN x
    ELSE Some([Val(x) EXCEPT !.GPSLatitude = JsonValue(@),
                             !.GPSLongitude = JsonValue(@),
                             !.GPSAltitude = JsonValue(@)])

JsonRoundTrip(meta) ==
    IF IsNone(meta) THEN meta
    ELSE Some([Val(meta) EXCEPT !.GPSInfo = JsonNested(@),
                                !.GPSLatitude = JsonValue(@),
                                !.GPSLongitude = JsonValue(@),
                                !.GPSAltitude = JsonValue(@)])

\* the row as the table stores it
Stored(photo) == [photo EXCEPT !.exif_meta = JsonRoundTrip(@)]

\* a bug: no constraint on the table
UniqueViolationNever(cat, photo) == FALSE

\* UniqueConstraint(fields=["source_file"]): an INSERT of a path already stored fails
UniqueViolation(cat, photo) ==
    IsNone(photo.id) /\ Matching(cat, photo.source_file) # {}

\* photo.save() raises: exif_meta is not JSON serializable, or the constraint fails
SaveRaises(cat, photo) ==
    \/ NotNone(photo.exif_meta) /\ ~Val(photo.exif_meta).json
    \/ UniqueViolation(cat, photo)

\* photo.save(): INSERT when the Photo has no primary key, else UPDATE of its row
Save(cat, photo) ==
    IF IsNone(photo.id)
    THEN Append(cat, Stored([photo EXCEPT !.id = Some(Len(cat) + 1)]))
    ELSE [cat EXCEPT ![Val(photo.id)] = Stored(photo)]

\* lines 137-143: Photo.objects.get(source_file=relative_path), or a new Photo
Lookup(cat, p) ==
    LET m == Matching(cat, p)
    IN  IF m = {} THEN [raised |-> FALSE, is_new |-> TRUE, photo |-> NewPhoto(p)]
        ELSE IF Cardinality(m) = 1
             THEN [raised |-> FALSE, is_new |-> FALSE, photo |-> cat[CHOOSE i \in m : TRUE]]
             ELSE [raised |-> TRUE, is_new |-> FALSE, photo |-> NewPhoto(p)]

\* lines 145-148
ShouldSkip(found, force_reprocess) ==
    ~force_reprocess /\ ~found.is_new /\ _is_fully_processed(found.photo)

\* a bug: the action does not depend on what the lookup found
ProcessAndSaveAlwaysCreated(cat, found, p, file, force_reprocess) ==
    LET photo == Extracted(found.photo, p, file, force_reprocess)
    IN  IF SaveRaises(cat, photo)
        THEN [action |-> "raised", catalog |-> cat]
        ELSE [action |-> "created", catalog |-> Save(cat, photo)]

\* a bug: the row is written before the save is refused
ProcessAndSaveWritesFirst(cat, found, p, file, force_reprocess) ==
    LET photo == Extracted(found.photo, p, file, force_reprocess)
    IN  IF SaveRaises(cat, photo)
        THEN [action |-> "raised", catalog |-> Save(cat, photo)]
        ELSE [action |-> IF found.is_new THEN "created" ELSE "updated",
              catalog |-> Save(cat, photo)]

\* lines 150-167, from the looked-up Photo to the save
ProcessAndSave(cat, found, p, file, force_reprocess) ==
    LET photo == Extracted(found.photo, p, file, force_reprocess)
    IN  IF SaveRaises(cat, photo)
        THEN [action |-> "raised", catalog |-> cat]
        ELSE [action |-> IF found.is_new THEN "created" ELSE "updated",
              catalog |-> Save(cat, photo)]

\* process_single_photo as one call; action "raised" is an exception
process_single_photo(cat, p, file, force_reprocess) ==
    LET found == Lookup(cat, p)
    IN  IF found.raised THEN [action |-> "raised", catalog |-> cat]
        ELSE IF ShouldSkip(found, force_reprocess)
             THEN [action |-> "skipped", catalog |-> cat]
             ELSE ProcessAndSave(cat, found, p, file, force_reprocess)

\* the record of a finished call: what it was given, what it found, what it did;
\* tick tells one call from the next, at is the number of file changes before it
Call(before, p, force_reprocess, found, action, at) ==
    [tick |-> 1 - before.tick, path |-> p, force |-> force_reprocess, at |-> at,
     pre |-> IF found.is_new \/ found.raised THEN None ELSE Some(found.photo),
     action |-> action]

NoCall == [tick |-> 0, path |-> 0, force |-> FALSE, at |-> 0,
           pre |-> None, action |-> "none"]

-----------------------------------------------------------------------------
(* process_directory *)

\* sorted(photo_files): the paths that hold a file, in ascending order
RECURSIVE SortedFrom(_, _)
SortedFrom(S, acc) ==
    IF S = {} THEN acc
    ELSE LET x == CHOOSE y \in S : \A z \in S : y <= z
         IN  SortedFrom(S \ {x}, Append(acc, x))

_discover_photo_files(fs) == SortedFrom({p \in DOMAIN fs : fs[p] # NoFile}, <<>>)

NewStats(n) ==
    [total_files |-> n, processed |-> 0, skipped |-> 0, updated |-> 0,
     created |-> 0, errors |-> 0, error_details |-> <<>>]

\* a bug: the exception is caught and dropped
CountDropsError(stats, action, p) ==
    CASE action = "skipped" -> [stats EXCEPT !.skipped = @ + 1]
      [] action = "created" -> [stats EXCEPT !.created = @ + 1, !.processed = @ + 1]
      [] action = "updated" -> [stats EXCEPT !.updated = @ + 1, !.processed = @ + 1]
      [] OTHER -> stats

\* lines 74-92: one iteration's bookkeeping
Count(stats, action, p) ==
    CASE action = "skipped" -> [stats EXCEPT !.skipped = @ + 1]
      [] action = "created" -> [stats EXCEPT !.created = @ + 1, !.processed = @ + 1]
      [] action = "updated" -> [stats EXCEPT !.updated = @ + 1, !.processed = @ + 1]
      [] OTHER -> [stats EXCEPT !.errors = @ + 1,
                                !.error_details = Append(@, p)]

Idle == [state |-> "idle", photo_files |-> <<>>, i |-> 1, force |-> FALSE,
         stats |-> NewStats(0)]

-----------------------------------------------------------------------------
(* GeocodingService *)

Resolutions == {3, 6, 9, 12, 15}

\* the resolutions the geocoding runs are started with
GeoResolutions == {9, 12}

\* getattr(photo, f"h3_res_{resolution}", None)
H3Field(photo, res) ==
    CASE res = 15 -> photo.h3_res_15
      [] res = 12 -> photo.h3_res_12
      [] res = 9 -> photo.h3_res_9
      [] res = 6 -> photo.h3_res_6
      [] res = 3 -> photo.h3_res_3
      [] OTHER -> None

\* what _geocode_coordinates returns: None (ok = FALSE) or location_data
GeoData(ok, addr, cc, tz) == [ok |-> ok, addr |-> addr, cc |-> cc, tz |-> tz]

GeoOutcomes ==
    { GeoData(FALSE, "", None, None),
      GeoData(TRUE, "Chiyoda, Tokyo", Some("JP"), Some("Asia/Tokyo")),
      GeoData(TRUE, "Pacific Ocean", None, None) }

\* lines 74-78: the primary keys of the photos to geocode
GeoSelected(cat, recalculate) ==
    {i \in 1..Len(cat) :
        /\ NotNone(cat[i].gps_latitude) /\ NotNone(cat[i].gps_longitude)
        /\ (recalculate \/ IsNone(cat[i].geo_coded_at))}

\* _group_photos_by_h3: the cells of the selected photos
_group_photos_by_h3(cat, sel, res) ==
    {Val(H3Field(cat[i], res)) : i \in {k \in sel : NotNone(H3Field(cat[k], res))}}

\* _calculate_timezone_aware_datetime: the text localized in the zone
LocalizedTime(text, tz) == [text |-> text, tz |-> tz]

\* _apply_geocoding_to_photos raises: None[:2] when there is no country component
ApplyRaises(data) == IsNone(data.cc)

\* _apply_geocoding_to_photos on one photo, as bulk_update stores it
Geocoded(photo, data) ==
    [photo EXCEPT
       !.location = Some(data.addr),
       !.country_code = data.cc,
       !.geo_coded_at = Some("now"),
       !.date_time_taken =
           IF NotNone(data.tz) /\ NotNone(photo.date_time_original_text)
           THEN Some(LocalizedTime(Val(photo.date_time_original_text), Val(data.tz)))
           ELSE @]

\* geocode_photos when nothing else writes the table while it runs: the catalog
\* after the loop over the cells; api maps each cell to what the reverse-geocode
\* call returns for its centre
geocode_photos(cat, res, recalculate, api) ==
    LET sel == GeoSelected(cat, recalculate)
    IN  [i \in 1..Len(cat) |->
           IF i \in sel /\ NotNone(H3Field(cat[i], res))
           THEN LET data == api[Val(H3Field(cat[i], res))]
                IN  IF data.ok /\ ~ApplyRaises(data) THEN Geocoded(cat[i], data)
                    ELSE cat[i]
           ELSE cat[i]]

-----------------------------------------------------------------------------
(* Initial state and actions *)

\* no geocode_photos run is in progress, no tree is given
NoProbe == [op |-> "none"]

IdleWorker == [pc |-> "idle", path |-> 0, force |-> FALSE, found |-> Lookup(<<>>, 0)]

Init ==
    /\ files = [p \in Paths |-> GoodFile]
    /\ catalog = <<>>
    /\ last = NoCall
    /\ run = Idle
    /\ wk = [w \in Workers |-> IdleWorker]
    /\ changes = 0
    /\ probe = NoProbe

\* the call gets as far as opening the file
Opens(cat, p, force_reprocess) ==
    LET found == Lookup(cat, p)
    IN  ~found.raised /\ ~ShouldSkip(found, force_reprocess)

\* the file at the path becomes c between the two opens of a pass, or stays
\* as it is (c is the file as it was)
ChangedMeanwhile(p, c) ==
    /\ files' = [files EXCEPT ![p] = c]
    /\ changes' = IF c = files[p] THEN changes ELSE changes + 1

\* a call of process_single_photo(file_path, base_directory, force_reprocess);
\* c is the file at the path when the call opens it the second time
Ingest(p, force_reprocess, c) ==
    /\ Len(catalog) < MaxRows
    /\ c # files[p] => changes < MaxChanges /\ Opens(catalog, p, force_reprocess)
    /\ LET r == process_single_photo(catalog, p, Seen(files[p], c), force_reprocess)
       IN  /\ catalog' = r.catalog
           /\ last' = Call(last, p, force_reprocess, Lookup(catalog, p), r.action,
                           changes)
    /\ ChangedMeanwhile(p, c)
    /\ UNCHANGED <<probe, run, wk>>

\* the file at a path is replaced, damaged or removed
ChangeFile(p, c) ==
    /\ changes < MaxChanges
    /\ c # files[p]
    /\ files' = [files EXCEPT ![p] = c]
    /\ changes' = changes + 1
    /\ UNCHANGED <<probe, catalog, last, run, wk>>

Next ==
    \/ \E p \in Paths, f \in BOOLEAN, c \in FileContents \cup {NoFile} :
          Ingest(p, f, c)
    \/ \E p \in Paths, c \in FileContents \cup {NoFile} : ChangeFile(p, c)

\* ingestion calls one after the other over a tree that changes before, during
\* and after them
Spec == Init /\ [][Next]_vars

-----------------------------------------------------------------------------
(* process_directory, one iteration of its loop at a time *)

\* process_directory up to the loop: discovery and the empty statistics
StartDirectory(force_reprocess) ==
    /\ run.state # "running"
    /\ LET found == _discover_photo_files(files)
       IN  run' = [state |-> "running", photo_files |-> found, i |-> 1,
                   force |-> force_reprocess, stats |-> NewStats(Len(found))]
    /\ UNCHANGED <<probe, files, catalog, last, wk, changes>>

\* one iteration of the loop: the call, and the except clause when it raises;
\* c is the file at the path when the call opens it the second time
DirectoryStep(c) ==
    /\ run.state = "running"
    /\ run.i <= Len(run.photo_files)
    /\ Len(catalog) < MaxRows
    /\ LET p == run.photo_files[run.i]
           r == process_single_photo(catalog, p, Seen(files[p], c), run.force)
       IN  /\ c # files[p] => changes < MaxChanges /\ Opens(catalog, p, run.force)
           /\ catalog' = r.catalog
           /\ last' = Call(last, p, run.force, Lookup(catalog, p), r.action,
                           changes)
           /\ run' = [run EXCEPT !.i = @ + 1, !.stats = Count(@, r.action, p)]
           /\ ChangedMeanwhile(p, c)
    /\ UNCHANGED <<probe, wk>>

\* return stats
DirectoryReturn ==
    /\ run.state = "running"
    /\ run.i > Len(run.photo_files)
    /\ run' = [run EXCEPT !.state = "returned"]
    /\ UNCHANGED <<probe, files, catalog, last, wk, changes>>

NextDir ==
    \/ \E f \in BOOLEAN : StartDirectory(f)
    \/ \E c \in FileContents \cup {NoFile} : DirectoryStep(c)
    \/ DirectoryReturn
    \/ \E p \in Paths, c \in FileContents \cup {NoFile} : ChangeFile(p, c)

\* process_directory runs one after the other over a changing tree
SpecDir == Init /\ [][NextDir]_vars

-----------------------------------------------------------------------------
(* Two ingestion runs at once: a call is a lookup, then extraction and save *)

\* lines 134-148: the lookup and the skip decision
Begin(w, p, force_reprocess) ==
    /\ wk[w].pc = "idle"
    /\ LET found == Lookup(catalog, p)
       IN  IF found.raised \/ ShouldSkip(found, force_reprocess)
           THEN /\ last' = Call(last, p, force_reprocess, found,
                                IF found.raised THEN "raised" ELSE "skipped", changes)
                /\ wk' = wk
           ELSE /\ wk' = [wk EXCEPT ![w] = [pc |-> "found", path |-> p,
                                            force |-> force_reprocess, found |-> found]]
                /\ last' = last
    /\ UNCHANGED <<probe, files, catalog, run, changes>>

\* lines 150-167: extraction from the file, which is as it was at the lookup,
\* and the save
Finish(w) ==
    /\ wk[w].pc = "found"
    /\ Len(catalog) < MaxRows
    /\ LET p == wk[w].path
           r == ProcessAndSave(catalog, wk[w].found, p, files[p], wk[w].force)
       IN  /\ catalog' = r.catalog
           /\ last' = Call(last, p, wk[w].force, wk[w].found, r.action, changes)
    /\ wk' = [wk EXCEPT ![w] = IdleWorker]
    /\ UNCHANGED <<probe, files, run, changes>>

\* any tree; it stays as it is while the two runs are in progress, so that the
\* two opens of a pass see the same file whenever the pass runs
InitConc ==
    /\ files \in [Paths -> FileContents \cup {NoFile}]
    /\ catalog = <<>>
    /\ last = NoCall
    /\ run = Idle
    /\ wk = [w \in Workers |-> IdleWorker]
    /\ changes = 0
    /\ probe = NoProbe

NextConc ==
    \/ \E w \in Workers, p \in Paths, f \in BOOLEAN : Begin(w, p, f)
    \/ \E w \in Workers : Finish(w)

\* two ingestion runs interleaved at their catalog accesses
SpecConc == InitConc /\ [][NextConc]_vars

-----------------------------------------------------------------------------
(* Calls on a stored row of any shape the table admits: each column of        *)
(* models.py is nullable on its own, so a row written before a column existed *)
(* or edited by hand may hold any combination                                 *)

TokyoLat == Val(_parse_gps_coordinate(Dms(35, 42, 12)))
TokyoLon == Val(_parse_gps_coordinate(Dms(139, 46, 27)))

IfIn(b, v) == IF b THEN Some(v) ELSE None

StoredRows ==
    {[NewPhoto(1) EXCEPT
        !.id = Some(1),
        !.file_name = Some(Basename(1)),
        !.directory = Some(Dirname(1)),
        !.exif_meta = JsonRoundTrip(Some(TokyoDms)),
        !.gps_latitude = IfIn(la, TokyoLat),
        !.gps_longitude = IfIn(lo, TokyoLon),
        !.h3_res_15 = IfIn(15 \in I, latlng_to_cell(TokyoLat, TokyoLon, 15)),
        !.h3_res_12 = IfIn(12 \in I, latlng_to_cell(TokyoLat, TokyoLon, 12)),
        !.h3_res_9 = IfIn(9 \in I, latlng_to_cell(TokyoLat, TokyoLon, 9)),
        !.h3_res_6 = IfIn(6 \in I, latlng_to_cell(TokyoLat, TokyoLon, 6)),
        !.h3_res_3 = IfIn(3 \in I, latlng_to_cell(TokyoLat, TokyoLon, 3)),
        !.perceptual_hash = IfIn(h, "c3d1a5a5e1b0f0c7"),
        !.location = IfIn(g, "Chiyoda, Tokyo"),
        !.country_code = IfIn(g, "JP"),
        !.geo_coded_at = IfIn(g, "now")] :
      la \in BOOLEAN, lo \in BOOLEAN, I \in SUBSET Resolutions,
      h \in BOOLEAN, g \in BOOLEAN}

InitStored ==
    /\ files \in [Paths -> {GoodFile, Screenshot, ElsewhereFile, NestedFile}]
    /\ catalog \in {<<r>> : r \in StoredRows}
    /\ last = NoCall
    /\ run = Idle
    /\ wk = [w \in Workers |-> IdleWorker]
    /\ changes = 0
    /\ probe = NoProbe

\* no file changes while the calls run
NextStored == \E p \in Paths, f \in BOOLEAN : Ingest(p, f, files[p])

SpecStored == InitStored /\ [][NextStored]_vars

-----------------------------------------------------------------------------
(* _discover_photo_files on a tree of named entries.  A name is a sequence of *)
(* characters, a path a sequence of names from the root directory down.       *)

\* how many entries the tree may hold
MaxEntries == 4

\* the letters, in the order of their code points
UpperCase == <<"A", "B", "C", "D", "E", "F", "G", "H", "I", "J", "K", "L", "M",
               "N", "O", "P", "Q", "R", "S", "T", "U", "V", "W", "X", "Y", "Z">>
LowerCase == <<"a", "b", "c", "d", "e", "f", "g", "h", "i", "j", "k", "l", "m",
               "n", "o", "p", "q", "r", "s", "t", "u", "v", "w", "x", "y", "z">>

\* the position of an element of a sequence, 0 when it is not one
IndexIn(seq, c) ==
    IF \E k \in 1..Len(seq) : seq[k] = c
    THEN CHOOSE k \in 1..Len(seq) : seq[k] = c ELSE 0

\* ord(c) of the characters names are written in: letters, "-", ".", "/", "_"
Ord(c) ==
    CASE IndexIn(UpperCase, c) > 0 -> 64 + IndexIn(UpperCase, c)
      [] IndexIn(LowerCase, c) > 0 -> 96 + IndexIn(LowerCase, c)
      [] c = "-" -> 45  [] c = "." -> 46  [] c = "/" -> 47  [] c = "_" -> 95

\* a bug: the case of the name is kept
LowerKeepsCase(c) == c

\* str.lower(), one character at a time
Lower(c) ==
    IF IndexIn(UpperCase, c) > 0 THEN LowerCase[IndexIn(UpperCase, c)] ELSE c

IMAGE_EXTENSIONS ==
    { <<".", "j", "p", "g">>, <<".", "j", "p", "e", "g">>, <<".", "p", "n", "g">>,
      <<".", "h", "e", "i", "c">>, <<".", "w", "e", "b", "p">>, <<".", "p", "s", "d">> }

\* Path(filename).suffix: the name from its last dot on, empty when there is no
\* dot or the last dot is the first or the last character
Suffix(name) ==
    LET dots == {i \in 1..Len(name) : name[i] = "."}
    IN  IF dots = {} THEN <<>>
        ELSE LET i == CHOOSE d \in dots : \A e \in dots : e <= d
             IN  IF i > 1 /\ i < Len(name) THEN SubSeq(name, i, Len(name)) ELSE <<>>

LowerAll(str) == [k \in 1..Len(str) |-> Lower(str[k])]

\* os.path.join(root, filename): the names of the path with "/" between them
RECURSIVE PathString(_)
PathString(path) ==
    IF Len(path) = 1 THEN path[1]
    ELSE path[1] \o <<"/">> \o PathString(Tail(path))

\* str < str: the comparison of two strings by code point
RECURSIVE StrLess(_, _)
StrLess(a, b) ==
    IF b = <<>> THEN FALSE
    ELSE IF a = <<>> THEN TRUE
    ELSE IF Ord(a[1]) # Ord(b[1]) THEN Ord(a[1]) < Ord(b[1])
    ELSE StrLess(Tail(a), Tail(b))

\* sorted(photo_files)
RECURSIVE SortedPaths(_, _)
SortedPaths(S, acc) ==
    IF S = {} THEN acc
    ELSE LET x == CHOOSE y \in S :
                     \A z \in S \ {y} : StrLess(PathString(y), PathString(z))
         IN  SortedPaths(S \ {x}, Append(acc, x))

\* an entry of the tree: a regular file or a directory at a path
Entry(kind, path) == [kind |-> kind, path |-> path]

\* the entries a tree is made of
Entries ==
    { Entry("file", << <<"b", ".", "j", "p", "g">> >>),
      Entry("file", << <<"a", ".", "p", "n", "g">> >>),
      Entry("file", << <<"c", ".", "J", "P", "E", "G">> >>),
      Entry("file", << <<"d", ".", "t", "x", "t">> >>),
      Entry("file", << <<".", "j", "p", "g">> >>),
      Entry("file", << <<"j", "p", "g">> >>),
      Entry("file", << <<"Z", ".", "H", "e", "i", "C">> >>),
      Entry("file", << <<"e", ".", "w", "e", "b", "p", ".", "t", "x", "t">> >>),
      Entry("file", << <<"a">>, <<"b", ".", "j", "p", "g">> >>),
      Entry("file", << <<"a">>, <<"d", ".", "t", "x", "t">> >>),
      Entry("file", << <<"a">>, <<"I", "M", "G", "_", "N", ".", "P", "N", "G">> >>),
      Entry("file", << <<"a", "-", "b">>, <<"c", ".", "w", "e", "b", "p">> >>),
      Entry("file", << <<"s", ".", "j", "p", "g">>, <<"x", ".", "p", "s", "d">> >>),
      Entry("dir", << <<"t", ".", "p", "n", "g">> >>) }

\* a directory is the path of its names from the root down, the root is <<>>;
\* the directories of a tree are those created as such and those of its entries
DirsOf(tree) ==
    UNION {{SubSeq(e.path, 1, k) : k \in 0..(Len(e.path) - 1)} : e \in tree}
      \cup {e.path : e \in {f \in tree : f.kind = "dir"}}

\* the entry at the path is directly in the directory
IsIn(path, d) == Len(path) = Len(d) + 1 /\ SubSeq(path, 1, Len(d)) = d

\* os.scandir of one directory, as os.walk splits it: its directories, its files
SubDirs(tree, d) == {x \in DirsOf(tree) : IsIn(x, d)}
FilesIn(tree, d) == {e.path : e \in {f \in tree : f.kind = "file" /\ IsIn(f.path, d)}}

\* lines 109-113: the files of the listing whose suffix, lowered, is an extension
Kept(paths) == {p \in paths : LowerAll(Suffix(p[Len(p)])) \in IMAGE_EXTENSIONS}

\* tree is what the file system holds; a walk has the tree it began on (start),
\* the directories it has listed and not entered yet, the children of one
\* directory together and the deepest first (pending), and the paths it has
\* kept (found)
NewTree == [op |-> "tree", tree |-> {}, walking |-> FALSE, start |-> {},
            pending |-> <<>>, found |-> {}, scanned |-> FALSE, photo_files |-> <<>>]

InitDiscover ==
    /\ files = [p \in Paths |-> GoodFile]
    /\ catalog = <<>>
    /\ last = NoCall
    /\ run = Idle
    /\ wk = [w \in Workers |-> IdleWorker]
    /\ changes = 0
    /\ probe = NewTree

\* a file or a directory appears in the tree, during a walk or between two
CreateEntry(e) ==
    /\ Cardinality(probe.tree) < MaxEntries
    /\ e \notin probe.tree
    /\ probe' = IF probe.walking
                THEN [probe EXCEPT !.tree = @ \cup {e}]
                ELSE [NewTree EXCEPT !.tree = probe.tree \cup {e}]
    /\ UNCHANGED <<files, catalog, last, run, wk, changes>>

\* a call of _discover_photo_files(directory_path): os.walk is about to list
\* the root
Discover ==
    /\ ~probe.walking /\ ~probe.scanned
    /\ probe' = [probe EXCEPT !.walking = TRUE, !.start = probe.tree,
                              !.pending = << {<<>>} >>, !.found = {}]
    /\ UNCHANGED <<files, catalog, last, run, wk, changes>>

\* one round of the loop of line 108: os.walk lists the next directory, one of
\* those listed last in whatever order the listing gave them, and the loop body
\* keeps the image files of the listing
ScanDirectory(d) ==
    /\ probe.walking /\ probe.pending # <<>>
    /\ d \in Head(probe.pending)
    /\ LET others == Head(probe.pending) \ {d}
           rest == IF others = {} THEN Tail(probe.pending)
                   ELSE <<others>> \o Tail(probe.pending)
           subs == SubDirs(probe.tree, d)
       IN  probe' = [probe EXCEPT
                       !.pending = IF subs = {} THEN rest ELSE <<subs>> \o rest,
                       !.found = @ \cup Kept(FilesIn(probe.tree, d))]
    /\ UNCHANGED <<files, catalog, last, run, wk, changes>>

\* line 115: return sorted(photo_files)
DiscoverReturn ==
    /\ probe.walking /\ probe.pending = <<>>
    /\ probe' = [probe EXCEPT !.walking = FALSE, !.scanned = TRUE,
                              !.photo_files = SortedPaths(probe.found, <<>>)]
    /\ UNCHANGED <<files, catalog, last, run, wk, changes>>

NextDiscover ==
    \/ \E e \in Entries : CreateEntry(e)
    \/ Discover
    \/ \E d \in DirsOf(Entries) : ScanDirectory(d)
    \/ DiscoverReturn

\* calls of _discover_photo_files over a tree in which entries appear
SpecDiscover == InitDiscover /\ [][NextDiscover]_vars

-----------------------------------------------------------------------------
(* geocode_photos, one iteration of its loop over the cells at a time, on a   *)
(* table of photos as the tests of the geocoding service create them          *)

\* how many photos the table holds
MaxPhotos == 3

\* two places of one res-9 cell and different res-12 cells, and a third far away
Places ==
    [A |-> [lat |-> 35703333, lon |-> 139774167],
     B |-> [lat |-> 35704444, lon |-> 139775555],
     C |-> [lat |-> 10771247, lon |-> 106693597]]

\* Photo.objects.create(gps_latitude=..., gps_longitude=...), calculate_h3_indexes()
\* when indexed, and the enrichment of an earlier run when geocoded
PhotoAt(place, indexed, geocoded) ==
    LET a == [NewPhoto(0) EXCEPT
                !.gps_latitude = Some(Places[place].lat),
                !.gps_longitude = Some(Places[place].lon),
                !.date_time_original_text = Some("2023:10:15 14:30:25")]
        b == IF indexed THEN calculate_h3_indexes(a) ELSE a
    IN  IF geocoded
        THEN [b EXCEPT !.location = Some("Old location"), !.country_code = Some("XX"),
                       !.geo_coded_at = Some("earlier")]
        ELSE b

\* the kinds of photo a table is made of
PhotoKinds ==
    << NewPhoto(0),
       PhotoAt("A", TRUE, FALSE), PhotoAt("B", TRUE, FALSE), PhotoAt("C", TRUE, FALSE),
       PhotoAt("A", TRUE, TRUE), PhotoAt("C", TRUE, TRUE),
       PhotoAt("A", FALSE, FALSE),
       [PhotoAt("C", TRUE, FALSE) EXCEPT
          !.date_time_original_text = Some("2025:02:04 03:06:35")] >>

\* the tables: row k holds a photo of kind f[k], the kinds in ascending order
PhotoTables ==
    UNION {{[k \in 1..n |-> [PhotoKinds[f[k]] EXCEPT !.id = Some(k), !.source_file = k]] :
              f \in {g \in [1..n -> 1..Len(PhotoKinds)] :
                        \A k \in 1..(n - 1) : g[k] <= g[k + 1]}} :
           n \in 1..MaxPhotos}

\* the h3_resolution arguments: two with a column, one without
GeoArguments == {9, 10, 12}

\* the photos of the group of a cell
GroupOf(cat, sel, res, cell) == {i \in sel : H3Field(cat[i], res) = Some(cell)}

\* the capture times the files and the tests carry, in ascending order; a text
\* sorts as a string, and a date_time_taken, every one of them localized in the
\* one zone of GeoOutcomes, as the text it was computed from
DateTexts == <<"2015:01:10 09:00:00", "2020:04:02 18:10:27", "2023:10:15 14:30:25",
               "2025:02:04 03:06:35", "2025:02:04 12:06:35">>

\* the place of a value in the ascending order of its column; NULL is the least
TextRank(text) == IF IsNone(text) THEN 0 ELSE IndexIn(DateTexts, Val(text))
TakenRank(taken) == IF IsNone(taken) THEN 0 ELSE IndexIn(DateTexts, Val(taken).text)

\* Meta.ordering = ["-date_time_taken", "-date_time_original_text"]: the first
\* photo is returned before the second
ComesFirst(a, b) ==
    \/ TakenRank(a.date_time_taken) > TakenRank(b.date_time_taken)
    \/ /\ TakenRank(a.date_time_taken) = TakenRank(b.date_time_taken)
       /\ TextRank(a.date_time_original_text) > TextRank(b.date_time_original_text)

\* the orders in which the query may return the selected photos: the ordering
\* of the model decides, and photos it does not tell apart come in any order
QueryOrders(cat, sel) ==
    {rows \in [1..Cardinality(sel) -> sel] :
        /\ \A k, l \in 1..Cardinality(sel) : rows[k] = rows[l] => k = l
        /\ \A k, l \in 1..Cardinality(sel) :
              k < l => ~ComesFirst(cat[rows[l]], cat[rows[k]])}

\* a bug: one group per photo
CellsPerPhoto(cat, sel, res, rows) ==
    LET RECURSIVE Each(_)
        Each(k) ==
            IF k > Len(rows) THEN <<>>
            ELSE IF NotNone(H3Field(cat[rows[k]], res))
                 THEN <<Val(H3Field(cat[rows[k]], res))>> \o Each(k + 1)
                 ELSE Each(k + 1)
    IN  Each(1)

\* h3_groups.items(): the cells in the order the query, returning the photos in
\* the order rows, first yields a photo of each
CellsInOrder(cat, sel, res, rows) ==
    LET RECURSIVE Order(_, _)
        Order(k, acc) ==
            IF k > Len(rows) THEN acc
            ELSE LET cell == H3Field(cat[rows[k]], res)
                 IN  IF IsNone(cell) \/ \E n \in 1..Len(acc) : acc[n] = Val(cell)
                     THEN Order(k + 1, acc)
                     ELSE Order(k + 1, Append(acc, Val(cell)))
    IN  Order(1, <<>>)

\* lines 64-71
NewGeoStats(n) ==
    [total_photos |-> n, processed_photos |-> 0, skipped_photos |-> 0,
     api_calls |-> 0, errors |-> 0]

\* bulk_update of the group: the four fields of the Photos loaded by the query
BulkUpdate(cat, loaded, group, data) ==
    [i \in 1..Len(cat) |->
        IF i \in group
        THEN LET photo == Geocoded(loaded[i], data)
             IN  [cat[i] EXCEPT !.location = photo.location,
                                !.country_code = photo.country_code,
                                !.geo_coded_at = photo.geo_coded_at,
                                !.date_time_taken = photo.date_time_taken]
        ELSE cat[i]]

InitGeo ==
    /\ files = [p \in Paths |-> GoodFile]
    /\ catalog \in PhotoTables
    /\ last = NoCall
    /\ run = Idle
    /\ wk = [w \in Workers |-> IdleWorker]
    /\ changes = 0
    /\ probe = NoProbe

\* geocode_photos up to line 87: the count query, and the return when it is 0
GeocodeStart(res, recalculate) ==
    /\ probe.op = "none"
    /\ LET sel == GeoSelected(catalog, recalculate)
       IN  probe' = [op |-> "geocode",
                     state |-> IF sel = {} THEN "returned" ELSE "counted",
                     res |-> res, recalculate |-> recalculate,
                     selected |-> sel, loaded |-> catalog,
                     cells |-> <<>>, i |-> 1, calls |-> <<>>,
                     stats |-> NewGeoStats(Cardinality(sel))]
    /\ UNCHANGED <<files, catalog, last, run, wk, changes>>

\* line 90: the query is run again, its photos are loaded and grouped
GeocodeGroup ==
    /\ probe.op = "geocode" /\ probe.state = "counted"
    /\ LET sel == GeoSelected(catalog, probe.recalculate)
       IN  \E rows \in QueryOrders(catalog, sel) :
             probe' = [probe EXCEPT !.state = "running",
                                    !.selected = sel, !.loaded = catalog,
                                    !.cells = CellsInOrder(catalog, sel, probe.res, rows)]
    /\ UNCHANGED <<files, catalog, last, run, wk, changes>>

\* a bug: the first cell that fails ends the loop
GeocodeCellStopsAtFailure(data) ==
    /\ probe.op = "geocode" /\ probe.state = "running"
    /\ probe.i <= Len(probe.cells)
    /\ LET cell == probe.cells[probe.i]
           group == GroupOf(probe.loaded, probe.selected, probe.res, cell)
           n == Cardinality(group)
           called == [probe EXCEPT !.i = @ + 1,
                                   !.calls = Append(@, [cell |-> cell, data |-> data]),
                                   !.stats.api_calls = @ + 1]
       IN  IF ~data.ok \/ ApplyRaises(data)
           THEN /\ probe' = [called EXCEPT !.stats.skipped_photos = @ + n,
                                           !.state = "returned"]
                /\ catalog' = catalog
           ELSE /\ probe' = [called EXCEPT !.stats.processed_photos = @ + n]
                /\ catalog' = BulkUpdate(catalog, probe.loaded, group, data)
    /\ UNCHANGED <<files, last, run, wk, changes>>

\* one iteration of the loop of lines 94-123: the reverse-geocode call for the
\* centre of the cell, then the update of the group or the except clause
GeocodeCell(data) ==
    /\ probe.op = "geocode" /\ probe.state = "running"
    /\ probe.i <= Len(probe.cells)
    /\ LET cell == probe.cells[probe.i]
           group == GroupOf(probe.loaded, probe.selected, probe.res, cell)
           n == Cardinality(group)
           called == [probe EXCEPT !.i = @ + 1,
                                   !.calls = Append(@, [cell |-> cell, data |-> data]),
                                   !.stats.api_calls = @ + 1]
       IN  IF ~data.ok
           THEN /\ probe' = [called EXCEPT !.stats.skipped_photos = @ + n]
                /\ catalog' = catalog
           ELSE IF ApplyRaises(data)
           THEN /\ probe' = [called EXCEPT !.stats.errors = @ + 1,
                                           !.stats.skipped_photos = @ + n]
                /\ catalog' = catalog
           ELSE /\ probe' = [called EXCEPT !.stats.processed_photos = @ + n]
                /\ catalog' = BulkUpdate(catalog, probe.loaded, group, data)
    /\ UNCHANGED <<files, last, run, wk, changes>>

\* return stats
GeocodeReturn ==
    /\ probe.op = "geocode" /\ probe.state = "running"
    /\ probe.i > Len(probe.cells)
    /\ probe' = [probe EXCEPT !.state = "returned"]
    /\ UNCHANGED <<files, catalog, last, run, wk, changes>>

NextGeo ==
    \/ \E res \in GeoArguments, rc \in BOOLEAN : GeocodeStart(res, rc)
    \/ GeocodeGroup
    \/ \E data \in GeoOutcomes : GeocodeCell(data)
    \/ GeocodeReturn

\* one geocoding run over a table of photos
SpecGeo == InitGeo /\ [][NextGeo]_vars

-----------------------------------------------------------------------------
(* An ingestion task and geocoding tasks at once (myphoto/tasks.py), the two  *)
(* interleaved at their catalog accesses: an ingestion call is a lookup and,  *)
(* later, a save; a geocoding run is a count, a load and one update per cell. *)
(* The files do not change.                                                   *)

\* the phone photo cut short: its tags read, its pixels do not decode
CutShort == File("tags", TokyoDms, None)

\* an empty table; the first file is the phone photo cut short, which no pass
\* completes, the others are whole
InitRace ==
    /\ files = [p \in Paths |-> IF p = 1 THEN CutShort ELSE GoodFile]
    /\ catalog = <<>>
    /\ last = NoCall
    /\ run = Idle
    /\ wk = [w \in Workers |-> IdleWorker]
    /\ changes = 0
    /\ probe = NoProbe

\* geocode_photos_task logs the statistics and returns: the next task starts
\* with a new service
GeocodeTaskReturn ==
    /\ probe.op = "geocode" /\ probe.state = "returned"
    /\ probe' = NoProbe
    /\ UNCHANGED <<files, catalog, last, run, wk, changes>>

NextRace ==
    \/ \E p \in Paths, f \in BOOLEAN : Begin(1, p, f)
    \/ Finish(1)
    \/ \E res \in GeoResolutions, rc \in BOOLEAN : GeocodeStart(res, rc)
    \/ GeocodeGroup
    \/ \E data \in GeoOutcomes : GeocodeCell(data)
    \/ GeocodeReturn
    \/ GeocodeTaskReturn

SpecRace == InitRace /\ [][NextRace]_vars

-----------------------------------------------------------------------------
(* process_directory of a service constructed with a progress callback, over a *)
(* directory large enough for the progress update of lines 83-86               *)

\* how many files the directory holds
MaxFiles == 10

\* line 84: a progress update every 10 files
ProgressEvery == 10

\* a photo whose metadata holds a value json cannot encode
RationalFile == File("tags", Rational, Some("9b64c2b0a1d3e4f5"))

\* the directories: phone photos, some of the first two and of the last replaced
\* by a photo whose save is refused
Directories ==
    {[p \in 1..MaxFiles |-> IF p \in B THEN RationalFile ELSE GoodFile] :
        B \in SUBSET {1, 2, MaxFiles}}

InitProgress ==
    /\ files \in Directories
    /\ catalog = <<>>
    /\ last = NoCall
    /\ run = Idle
    /\ wk = [w \in Workers |-> IdleWorker]
    /\ changes = 0
    /\ probe = NoProbe

\* lines 54-68: the statistics, the discovery and the first progress message;
\* an exception of the callback leaves process_directory
ProcessDirectoryStart(force_reprocess, callback_raises) ==
    /\ run.state # "running"
    /\ LET found == _discover_photo_files(files)
       IN  run' = [state |-> IF callback_raises THEN "raised" ELSE "running",
                   photo_files |-> found, i |-> 1,
                   force |-> force_reprocess, stats |-> NewStats(Len(found))]
    /\ UNCHANGED <<probe, files, catalog, last, wk, changes>>

\* lines 70-92: one iteration; the progress update of line 86 is inside the try,
\* so an exception of the callback reaches the except clause of line 88
ProcessDirectoryStep(callback_raises) ==
    /\ run.state = "running"
    /\ run.i <= Len(run.photo_files)
    /\ LET p == run.photo_files[run.i]
           r == process_single_photo(catalog, p, files[p], run.force)
           counted == Count(run.stats, r.action, p)
           update == /\ r.action # "raised"
                     /\ (counted.processed + counted.skipped) % ProgressEvery = 0
       IN  /\ callback_raises => update
           /\ catalog' = r.catalog
           /\ last' = Call(last, p, run.force, Lookup(catalog, p), r.action,
                           changes)
           /\ run' = [run EXCEPT
                        !.i = @ + 1,
                        !.stats = IF update /\ callback_raises
                                  THEN Count(counted, "raised", p)
                                  ELSE counted]
    /\ UNCHANGED <<probe, files, wk, changes>>

\* line 94: return stats
ProcessDirectoryReturn ==
    /\ run.state = "running"
    /\ run.i > Len(run.photo_files)
    /\ run' = [run EXCEPT !.state = "returned"]
    /\ UNCHANGED <<probe, files, catalog, last, wk, changes>>

NextProgress ==
    \/ \E f \in BOOLEAN, cr \in BOOLEAN : ProcessDirectoryStart(f, cr)
    \/ \E cr \in BOOLEAN : ProcessDirectoryStep(cr)
    \/ ProcessDirectoryReturn

\* process_directory runs one after the other, the callback failing or not
SpecProgress == InitProgress /\ [][NextProgress]_vars

-----------------------------------------------------------------------------
(* Vocabulary of the properties *)

\* the step is a finished process_single_photo call; last' describes it
CallStep == last'.tick # last.tick

HasRow(cat, p) == Matching(cat, p) # {}

\* the stored record of the path
Row(cat, p) == cat[CHOOSE i \in Matching(cat, p) : TRUE]

H3Fields(photo) ==
    <<photo.h3_res_3, photo.h3_res_6, photo.h3_res_9, photo.h3_res_12, photo.h3_res_15>>

AllIndexes(photo) == \A k \in 1..5 : NotNone(H3Fields(photo)[k])
NoIndexes(photo) == \A k \in 1..5 : IsNone(H3Fields(photo)[k])

\* "fully processed" as the data model defines it: the fingerprint always, the
\* five spatial indexes when there are coordinates
FullyProcessed(photo) ==
    /\ NotNone(photo.perceptual_hash)
    /\ has_gps(photo) => AllIndexes(photo)

\* a pass over the file parses both a latitude and a longitude
ParsedBoth(file) ==
    has_gps(_extract_gps_coordinates(_extract_exif_metadata(NewPhoto(0), file)))

Enriched(photo) ==
    NotNone(photo.location) /\ NotNone(photo.country_code) /\ NotNone(photo.geo_coded_at)

EnrichmentCleared(photo) ==
    IsNone(photo.location) /\ IsNone(photo.country_code) /\ IsNone(photo.geo_coded_at)

-----------------------------------------------------------------------------
(* C1 *)

\* the step is the second of two unforced calls on one path, the first of which
\* returned "created", with no file changed during the first call, in between
\* or during the second
SecondIngestion ==
    /\ CallStep
    /\ last.action = "created" /\ ~last.force
    /\ last'.path = last.path /\ ~last'.force
    /\ last'.at = last.at /\ files' = files

\* C1 as stated: ingesting the same file twice with force_reprocess=False yields
\* "created" and then "skipped", and the second call changes no stored field
C1_Original ==
    [][SecondIngestion => last'.action = "skipped" /\ catalog' = catalog]_vars

\* C1, amended: when the first call on a file returns "created", a second call
\* on the unchanged file with force_reprocess=False returns "skipped" with no
\* stored field changed if the first pass stored a perceptual hash; if the image
\* could not be decoded the second call reprocesses the file and returns "updated"
C1_Idempotent ==
    [][SecondIngestion =>
         /\ HasRow(catalog, last.path)
         /\ IF NotNone(Row(catalog, last.path).perceptual_hash)
            THEN last'.action = "skipped" /\ catalog' = catalog
            ELSE last'.action = "updated"]_vars

\* a second unforced call found the record with its hash and left it as it was
C1_Witness ==
    /\ last.action = "skipped" /\ ~last.force
    /\ NotNone(last.pre)
    /\ NotNone(Val(last.pre).perceptual_hash)
    /\ IsNone(Val(last.pre).geo_coded_at)
    /\ HasRow(catalog, last.path) /\ Row(catalog, last.path) = Val(last.pre)

-----------------------------------------------------------------------------
(* C2 *)

\* C2: in every reachable catalog state, under any interleaving of two ingestion
\* runs, at most one record exists per source_file value
C2_UniqueSourceFile ==
    \A i, j \in 1..Len(catalog) :
        catalog[i].source_file = catalog[j].source_file => i = j

\* a call that found no record at its lookup was refused at its save, because the
\* other run had stored the path in between; the path has its one record
C2_Witness ==
    /\ last.action = "raised" /\ IsNone(last.pre)
    /\ files[last.path] = GoodFile
    /\ Cardinality(Matching(catalog, last.path)) = 1

-----------------------------------------------------------------------------
(* C3 *)

\* C3 as stated: process_single_photo returns "skipped" exactly when a record of
\* the path exists, force_reprocess is False and the record is fully processed;
\* the call then saves nothing and leaves every stored field as it was
C3_SkipExactlyWhen ==
    [][CallStep =>
         /\ last'.action = "skipped" <=>
               /\ HasRow(catalog, last'.path)
               /\ ~last'.force
               /\ FullyProcessed(Row(catalog, last'.path))
         /\ last'.action = "skipped" => catalog' = catalog /\ files' = files]_vars

-----------------------------------------------------------------------------
(* C4 *)

\* C4 as stated: an existing record with coordinates and a fingerprint that lacks
\* any one of the five spatial indexes is reprocessed by an unforced call, which
\* returns "updated"
C4_MissingIndexReprocessed ==
    [][(/\ CallStep
        /\ ~last'.force
        /\ HasRow(catalog, last'.path)
        /\ has_gps(Row(catalog, last'.path))
        /\ NotNone(Row(catalog, last'.path).perceptual_hash)
        /\ ~AllIndexes(Row(catalog, last'.path)))
       => last'.action = "updated"]_vars

-----------------------------------------------------------------------------
(* C5 *)

\* C5: a record whose perceptual hash is absent is never skipped, whatever its
\* coordinates and spatial indexes, and a record without coordinates is skipped
\* by an unforced call if and only if its perceptual hash is present
C5_HashRequired ==
    [][(CallStep /\ HasRow(catalog, last'.path)) =>
         LET photo == Row(catalog, last'.path)
         IN  /\ IsNone(photo.perceptual_hash) => last'.action # "skipped"
             /\ (~has_gps(photo) /\ ~last'.force) =>
                   (last'.action = "skipped" <=> NotNone(photo.perceptual_hash))]_vars

\* an unforced call reprocessed a record that had coordinates and all five
\* indexes and no hash
C5_Witness ==
    /\ last.action = "updated" /\ ~last.force
    /\ NotNone(last.pre)
    /\ has_gps(Val(last.pre)) /\ AllIndexes(Val(last.pre))
    /\ IsNone(Val(last.pre).perceptual_hash)

-----------------------------------------------------------------------------
(* C6 *)

\* C6: in every record the ingestion passes store, the five spatial indexes are
\* all present or all absent
C6_IndexesAllOrNone ==
    \A i \in 1..Len(catalog) : AllIndexes(catalog[i]) \/ NoIndexes(catalog[i])

\* a reprocessing pass stored a record with its five indexes beside a record
\* that has none
C6_Witness ==
    /\ last.action = "updated"
    /\ AllIndexes(Row(catalog, last.path))
    /\ \E i \in 1..Len(catalog) : NoIndexes(catalog[i])

-----------------------------------------------------------------------------
(* C7 *)

\* the step is a pass that saved the record
SavedStep == CallStep /\ last'.action \in {"created", "updated"}

\* C7 as stated: after every pass (first ingestion, incomplete or forced
\* reprocess) the spatial indexes are populated if and only if the pass parsed
\* both latitude and longitude from the file, and are all absent otherwise
C7_IndexesIffParsed ==
    [][SavedStep =>
         LET photo == Row(catalog', last'.path)
         IN  IF ParsedBoth(files[last'.path])
             THEN AllIndexes(photo) ELSE NoIndexes(photo)]_vars

-----------------------------------------------------------------------------
(* C8 *)

\* the step is a forced pass over a file with coordinates that saved a record
\* which had been geocoded
ForcedOverEnriched ==
    /\ SavedStep /\ last'.force
    /\ HasRow(catalog, last'.path)
    /\ Enriched(Row(catalog, last'.path))
    /\ ParsedBoth(files[last'.path])

\* C8: a forced pass over a file whose coordinates are present leaves location,
\* country_code and geo_coded_at of a geocoded record absent in the saved record
C8_ForcedClearsEnrichment ==
    [][ForcedOverEnriched => EnrichmentCleared(Row(catalog', last'.path))]_vars

\* a forced pass found a geocoded record and stored it with the three fields reset
C8_Witness ==
    /\ last.action = "updated" /\ last.force
    /\ NotNone(last.pre) /\ Enriched(Val(last.pre))
    /\ ParsedBoth(files[last.path])
    /\ EnrichmentCleared(Row(catalog, last.path))

-----------------------------------------------------------------------------
(* C9 *)

\* C9 as stated: after a forced pass that recomputes the coordinates every
\* enrichment field is absent, date_time_taken included
C9_AllEnrichmentCleared ==
    [][(SavedStep /\ last'.force /\ ParsedBoth(files[last'.path])) =>
         /\ EnrichmentCleared(Row(catalog', last'.path))
         /\ IsNone(Row(catalog', last'.path).date_time_taken)]_vars

-----------------------------------------------------------------------------
(* C10 *)

Attempted(stats) == stats.created + stats.updated + stats.skipped + stats.errors

\* C10: process_directory attempts every discovered file in order; a call that
\* raises adds one to errors and one entry to error_details, the loop goes on to
\* the next file, and the statistics are returned
C10_BatchResilient ==
    /\ run.state # "idle" =>
          /\ Attempted(run.stats) = run.i - 1
          /\ run.stats.errors = Len(run.stats.error_details)
          /\ \A k \in 1..Len(run.stats.error_details) :
                \E n \in 1..(run.i - 1) : run.photo_files[n] = run.stats.error_details[k]
    /\ run.state = "returned" => run.i - 1 = Len(run.photo_files)
    /\ (run.state = "running" /\ last.action = "raised" /\ run.i > 1) =>
          /\ run.stats.errors >= 1
          /\ run.stats.error_details[run.stats.errors] = run.photo_files[run.i - 1]

\* a run returned after the call on its first file raised and the call on its
\* second file stored a record
C10_Witness ==
    /\ run.state = "returned"
    /\ Len(run.photo_files) = 2
    /\ run.stats.errors = 1
    /\ run.stats.error_details = <<run.photo_files[1]>>
    /\ run.stats.created + run.stats.updated = 1
    /\ HasRow(catalog, run.photo_files[2])

-----------------------------------------------------------------------------
(* C11 *)

\* the step is a call that returned "created" or "updated"
ReturnedSaved == CallStep /\ last'.action \in {"created", "updated"}

\* C11: a call that is not skipped returns "created" if and only if its lookup
\* found no record of the path and "updated" if and only if it found one; the
\* path has a record when the call returns, and no step removes a record
C11_CreatedOrUpdated ==
    [][/\ ReturnedSaved =>
            /\ last'.action = "created" <=> IsNone(last'.pre)
            /\ last'.action = "updated" <=> NotNone(last'.pre)
            /\ HasRow(catalog', last'.path)
       /\ Len(catalog') >= Len(catalog)
       /\ \A i \in 1..Len(catalog) :
             /\ catalog'[i].id = catalog[i].id
             /\ catalog'[i].source_file = catalog[i].source_file]_vars

\* a forced call found the record of its path and stored it again, beside the
\* record of the other path
C11_Witness ==
    /\ last.action = "updated" /\ last.force
    /\ NotNone(last.pre)
    /\ HasRow(catalog, last.path)
    /\ Len(catalog) = 2

-----------------------------------------------------------------------------
(* C12 *)

\* the step is a forced call on the path whose file the call before it ingested
\* for the first time, with no file changed during that call, in between or
\* during this one
ForcedAfterCreated ==
    /\ CallStep
    /\ last.action = "created"
    /\ last'.path = last.path /\ last'.force
    /\ last'.at = last.at /\ files' = files

\* C12: re-ingesting an unchanged file with force_reprocess=True returns
\* "updated" and stores the perceptual hash and the five spatial indexes that
\* the original ingestion stored
C12_ForcedStable ==
    [][ForcedAfterCreated =>
         /\ last'.action = "updated"
         /\ HasRow(catalog, last.path)
         /\ LET before == Row(catalog, last.path)
                after == Row(catalog', last.path)
            IN  /\ after.perceptual_hash = before.perceptual_hash
                /\ H3Fields(after) = H3Fields(before)]_vars

\* a forced pass over the unchanged phone photo stored the hash and the five
\* indexes it found
C12_Witness ==
    /\ last.action = "updated" /\ last.force
    /\ changes = 0 /\ files[last.path] = GoodFile
    /\ NotNone(last.pre)
    /\ AllIndexes(Val(last.pre)) /\ NotNone(Val(last.pre).perceptual_hash)
    /\ H3Fields(Row(catalog, last.path)) = H3Fields(Val(last.pre))
    /\ Row(catalog, last.path).perceptual_hash = Val(last.pre).perceptual_hash

-----------------------------------------------------------------------------
(* C13 *)

\* the Photo a pass builds from what its lookup found, up to the spatial
\* indexes: everything extracted before the fingerprint
BeforeHash(pre, p, file) ==
    LET photo == IF IsNone(pre) THEN NewPhoto(p) ELSE Val(pre)
    IN  _calculate_h3_indexes(_extract_gps_coordinates(
            _extract_exif_metadata(_extract_basic_info(photo, p), file)))

\* the stored record holds the metadata, coordinates and indexes of the Photo
SavedWith(row, photo) ==
    /\ row.file_name = photo.file_name /\ row.directory = photo.directory
    /\ row.exif_meta = JsonRoundTrip(photo.exif_meta)
    /\ row.date_time_original_text = photo.date_time_original_text
    /\ row.gps_latitude = photo.gps_latitude /\ row.gps_longitude = photo.gps_longitude
    /\ row.gps_altitude = photo.gps_altitude
    /\ H3Fields(row) = H3Fields(photo)

\* the step is a call that went through extraction
ExtractingStep == CallStep /\ last'.action # "skipped"

\* C13 as stated: when the image cannot be decoded for fingerprinting the call
\* does not fail, the record is saved with the metadata, coordinates and spatial
\* indexes extracted earlier in the pass and its perceptual hash is absent; a
\* file without coordinates whose image decodes gets a perceptual hash
C13_HashFailureNonFatal ==
    [][ExtractingStep =>
         LET p == last'.path
             file == Seen(files[p], files'[p])
         IN  /\ (IsNone(file.img) /\ file.tags.json) =>
                    /\ last'.action \in {"created", "updated"}
                    /\ HasRow(catalog', p)
                    /\ SavedWith(Row(catalog', p), BeforeHash(last'.pre, p, file))
                    /\ IsNone(Row(catalog', p).perceptual_hash)
             /\ (NotNone(file.img) /\ ~ParsedBoth(file) /\ file.tags.json) =>
                    /\ last'.action \in {"created", "updated"}
                    /\ NotNone(Row(catalog', p).perceptual_hash)]_vars

-----------------------------------------------------------------------------
(* C14 *)

\* the file has no tag block, or cannot be opened or read
NoTagBlock(file) == file.exif # "tags"

\* the metadata of the record is empty: the mapping {}, or, read leniently, no
\* mapping at all
EmptyMeta(meta) == IsNone(meta) \/ meta = Some(EmptyDict)

\* C14 as stated: when the file has no tag block or cannot be decoded, the pass
\* leaves the record with an empty metadata mapping, does not raise, and the
\* record is saved
C14_NoTagsEmptyMapping ==
    [][(ExtractingStep /\ NoTagBlock(files[last'.path])) =>
         /\ last'.action \in {"created", "updated"}
         /\ HasRow(catalog', last'.path)
         /\ EmptyMeta(Row(catalog', last'.path).exif_meta)]_vars

-----------------------------------------------------------------------------
(* C15 *)

\* two characters are the same letter in either case, or the same character
SameIgnoringCase(a, b) ==
    \/ a = b
    \/ Ord(a) \in 65..90 /\ Ord(b) = Ord(a) + 32
    \/ Ord(b) \in 65..90 /\ Ord(a) = Ord(b) + 32

\* the name ends, after at least one other character, with one of the six
\* extensions, letter case ignored
HasImageExtension(name) ==
    \E ext \in IMAGE_EXTENSIONS :
        /\ Len(name) > Len(ext)
        /\ \A k \in 1..Len(ext) :
              SameIgnoringCase(name[Len(name) - Len(ext) + k], ext[k])

\* the files of a tree that have one of the six extensions
ImageFiles(tree) ==
    {e.path : e \in {f \in tree : f.kind = "file" /\ HasImageExtension(f.path[Len(f.path)])}}

\* C15: _discover_photo_files returns exactly the files anywhere under the root
\* whose extension, compared case-insensitively, is one of .jpg .jpeg .png .heic
\* .webp .psd, each once, in ascending lexicographic order of path: none of
\* those the root held when the call began is omitted, nothing else that the
\* root holds or does not hold is included
C15_DiscoveryExact ==
    probe.op = "tree" /\ probe.scanned =>
        LET found == probe.photo_files
            returned == {found[k] : k \in 1..Len(found)}
        IN  /\ ImageFiles(probe.start) \subseteq returned
            /\ returned \subseteq ImageFiles(probe.tree)
            /\ probe.tree = probe.start => returned = ImageFiles(probe.tree)
            /\ Len(found) = Cardinality(returned)
            /\ \A k \in 1..Len(found) : \A l \in 1..Len(found) :
                  k < l => StrLess(PathString(found[k]), PathString(found[l]))

\* the scan of {b.jpg, a.png, c.JPEG} and d.txt found a.png, b.jpg, c.JPEG
C15_Witness ==
    /\ probe.op = "tree" /\ probe.scanned
    /\ probe.tree = probe.start
    /\ Entry("file", << <<"d", ".", "t", "x", "t">> >>) \in probe.tree
    /\ probe.photo_files = << << <<"a", ".", "p", "n", "g">> >>,
                              << <<"b", ".", "j", "p", "g">> >>,
                              << <<"c", ".", "J", "P", "E", "G">> >> >>

-----------------------------------------------------------------------------
(* C17 *)

\* the distinct cells, at the resolution of the run, of the photos it selected
DistinctCells ==
    {c \in {H3Field(probe.loaded[i], probe.res) : i \in probe.selected} : NotNone(c)}

Enrichment(photo) == <<photo.location, photo.country_code, photo.geo_coded_at>>

\* C17: geocode_photos makes exactly one reverse-geocode call per distinct H3
\* cell of the selected photos, the photos of a cell share the call and its
\* result, and the api_calls it returns is the number of distinct cells
C17_OneCallPerCell ==
    probe.op = "geocode" =>
        /\ probe.stats.api_calls = Len(probe.calls)
        /\ \A k \in 1..Len(probe.calls) :
              /\ Some(probe.calls[k].cell) \in DistinctCells
              /\ \A l \in 1..Len(probe.calls) :
                    probe.calls[k].cell = probe.calls[l].cell => k = l
              /\ \A i \in probe.selected : \A j \in probe.selected :
                    (/\ H3Field(probe.loaded[i], probe.res) = Some(probe.calls[k].cell)
                     /\ H3Field(probe.loaded[j], probe.res) = Some(probe.calls[k].cell))
                    => \/ /\ Enrichment(catalog[i]) = Enrichment(probe.loaded[i])
                          /\ Enrichment(catalog[j]) = Enrichment(probe.loaded[j])
                       \/ /\ Enrichment(catalog[i]) = Enrichment(catalog[j])
                          /\ catalog[i].location = Some(probe.calls[k].data.addr)
        /\ probe.state = "returned" =>
              probe.stats.api_calls = Cardinality(DistinctCells)

\* a run at resolution 9 over three photos, two of them in one cell, returned
\* after two calls and stored one location for the two
C17_Witness ==
    /\ probe.op = "geocode" /\ probe.state = "returned" /\ probe.res = 9
    /\ Cardinality(probe.selected) = 3
    /\ probe.stats.api_calls = 2
    /\ catalog[1].h3_res_9 = catalog[2].h3_res_9
    /\ catalog[1].gps_latitude # catalog[2].gps_latitude
    /\ catalog[1].location = Some("Chiyoda, Tokyo")
    /\ catalog[2].location = Some("Chiyoda, Tokyo")

-----------------------------------------------------------------------------
(* C18 *)

\* the photos a run is to select: both coordinates, and not yet geocoded
\* unless recalculate
ToSelect(cat, recalculate) ==
    {i \in 1..Len(cat) :
        /\ has_gps(cat[i])
        /\ ~recalculate => IsNone(cat[i].geo_coded_at)}

\* C18 as stated: geocode_photos selects exactly the photos with both
\* coordinates and, unless recalculate, without geo_coded_at; a photo without
\* coordinates is never geocoded; without recalculate an already geocoded photo
\* triggers no call and keeps its location; with recalculate its location and
\* country code are overwritten by the new result
C18_SelectionAndRecalculate ==
    probe.op = "geocode" =>
        /\ probe.selected = ToSelect(probe.loaded, probe.recalculate)
        /\ probe.stats.total_photos = Cardinality(probe.selected)
        /\ \A i \in 1..Len(catalog) :
              ~has_gps(probe.loaded[i]) => catalog[i] = probe.loaded[i]
        /\ ~probe.recalculate =>
              /\ \A i \in 1..Len(catalog) :
                    NotNone(probe.loaded[i].geo_coded_at) => catalog[i] = probe.loaded[i]
              /\ \A k \in 1..Len(probe.calls) :
                    \E i \in 1..Len(catalog) :
                        /\ IsNone(probe.loaded[i].geo_coded_at)
                        /\ H3Field(probe.loaded[i], probe.res) = Some(probe.calls[k].cell)
        /\ probe.recalculate =>
              \A k \in 1..Len(probe.calls) : \A i \in 1..Len(catalog) :
                  (/\ NotNone(probe.loaded[i].geo_coded_at)
                   /\ has_gps(probe.loaded[i])
                   /\ H3Field(probe.loaded[i], probe.res) = Some(probe.calls[k].cell)
                   /\ probe.calls[k].data.ok)
                  => /\ catalog[i].location = Some(probe.calls[k].data.addr)
                     /\ catalog[i].country_code = probe.calls[k].data.cc

-----------------------------------------------------------------------------
(* C19 *)

\* the step is a pass that saved an existing record with a latitude or a
\* longitude other than the stored one
CoordinatesChanged ==
    /\ SavedStep
    /\ HasRow(catalog, last'.path)
    /\ has_gps(Row(catalog, last'.path))
    /\ \/ Row(catalog', last'.path).gps_latitude # Row(catalog, last'.path).gps_latitude
       \/ Row(catalog', last'.path).gps_longitude # Row(catalog, last'.path).gps_longitude

\* C19 as stated: whenever an ingestion pass, forced or not, saves a record
\* whose latitude or longitude differs from the stored value, the saved record's
\* location, country code and geo_coded_at are absent
C19_NoStaleEnrichment ==
    [][CoordinatesChanged => EnrichmentCleared(Row(catalog', last'.path))]_vars

-----------------------------------------------------------------------------
(* C20 *)

\* C20: a raw coordinate that is neither a plain number nor a 3-tuple of
\* degrees, minutes and seconds parses to None; a pass over a file of which a
\* coordinate is missing or does not parse writes neither latitude nor
\* longitude, and no pass stores a record with exactly one of the two
C20_CoordinatesTogether ==
    [][SavedStep =>
         LET p == last'.path
             before == IF IsNone(last'.pre) THEN NewPhoto(p) ELSE Val(last'.pre)
             after == Row(catalog', p)
         IN  /\ IsNone(_parse_gps_coordinate(Other))
             /\ IsNone(after.gps_latitude) <=> IsNone(after.gps_longitude)
             /\ ~ParsedBoth(files[p]) =>
                   /\ after.gps_latitude = before.gps_latitude
                   /\ after.gps_longitude = before.gps_longitude]_vars

\* a first pass over a file whose latitude parses and whose longitude does not
\* stored a record without coordinates and without indexes
C20_Witness ==
    /\ last.action = "created"
    /\ last.at = changes
    /\ files[last.path].tags = LonUnparseable
    /\ NotNone(_parse_gps_coordinate(Val(files[last.path].tags.GPSLatitude)))
    /\ HasRow(catalog, last.path)
    /\ IsNone(Row(catalog, last.path).gps_latitude)
    /\ IsNone(Row(catalog, last.path).gps_longitude)
    /\ NoIndexes(Row(catalog, last.path))

-----------------------------------------------------------------------------
(* C21 *)

\* the file's metadata holds a nested GPS mapping with a latitude and a longitude
\* that parse
NestedParseable(file) ==
    /\ file.exif = "tags"
    /\ NotNone(file.tags.GPSInfo)
    /\ LET gi == Val(file.tags.GPSInfo)
       IN  /\ gi.kind = "dict"
           /\ NotNone(gi.GPSLatitude) /\ NotNone(gi.GPSLongitude)
           /\ NotNone(_parse_gps_coordinate(Val(gi.GPSLatitude)))
           /\ NotNone(_parse_gps_coordinate(Val(gi.GPSLongitude)))

\* C21 as stated: when the file's metadata contains a nested GPS info structure
\* holding parseable latitude and longitude, the record's latitude, longitude
\* and, when given, altitude are read from that structure; when the structure
\* is absent the pass sets no coordinates and raises no error
C21_ReadFromNested ==
    [][CallStep =>
         LET p == last'.path
             file == files[p]
             before == IF IsNone(last'.pre) THEN NewPhoto(p) ELSE Val(last'.pre)
         IN  /\ (SavedStep /\ NestedParseable(file)) =>
                   LET gi == Val(file.tags.GPSInfo)
                       after == Row(catalog', p)
                   IN  /\ after.gps_latitude = _parse_gps_coordinate(Val(gi.GPSLatitude))
                       /\ after.gps_longitude = _parse_gps_coordinate(Val(gi.GPSLongitude))
                       /\ (NotNone(gi.GPSAltitude) /\ Val(gi.GPSAltitude).shape = "num")
                             => after.gps_altitude = Some(Val(gi.GPSAltitude).s)
             /\ (file.exif = "tags" /\ IsNone(file.tags.GPSInfo) /\ file.tags.json) =>
                   /\ last'.action # "raised"
                   /\ SavedStep =>
                         /\ Row(catalog', p).gps_latitude = before.gps_latitude
                         /\ Row(catalog', p).gps_longitude = before.gps_longitude]_vars

-----------------------------------------------------------------------------
(* C22 *)

\* C22: after a pass that saves, the record's date_time_original_text is the
\* file's "DateTime" tag when that tag is present, otherwise its
\* "DateTimeOriginal" tag when that one is present; DateTimeOriginal is not
\* stored while DateTime is present with another value
C22_CaptureTimePrecedence ==
    [][(SavedStep /\ files[last'.path].exif = "tags") =>
         LET tags == files[last'.path].tags
             text == Row(catalog', last'.path).date_time_original_text
         IN  /\ NotNone(tags.DateTime) => text = tags.DateTime
             /\ (IsNone(tags.DateTime) /\ NotNone(tags.DateTimeOriginal)) =>
                   text = tags.DateTimeOriginal
             /\ (NotNone(tags.DateTime) /\ tags.DateTimeOriginal # tags.DateTime) =>
                   text # tags.DateTimeOriginal]_vars

\* a pass over a file with both tags, of different values, stored the value of
\* "DateTime"
C22_Witness ==
    /\ last.action = "updated"
    /\ files[last.path].exif = "tags"
    /\ NotNone(files[last.path].tags.DateTime)
    /\ NotNone(files[last.path].tags.DateTimeOriginal)
    /\ files[last.path].tags.DateTimeOriginal # files[last.path].tags.DateTime
    /\ Row(catalog, last.path).date_time_original_text = files[last.path].tags.DateTime

-----------------------------------------------------------------------------
(* C23 *)

\* C23 as stated: when process_directory returns, every discovered file is
\* counted exactly once: created + updated + skipped + errors = total_files,
\* processed = created + updated and len(error_details) = errors, also when the
\* progress callback raises during the loop
C23_CountedOnce ==
    run.state = "returned" =>
        /\ Attempted(run.stats) = run.stats.total_files
        /\ run.stats.processed = run.stats.created + run.stats.updated
        /\ Len(run.stats.error_details) = run.stats.errors

-----------------------------------------------------------------------------
(* C24 *)

\* the fields an ingestion pass derives from the file
DerivedFields(photo) ==
    <<photo.gps_latitude, photo.gps_longitude, photo.h3_res_3, photo.h3_res_6,
      photo.h3_res_9, photo.h3_res_12, photo.h3_res_15, photo.perceptual_hash>>

\* a field that is present in the one record is present in the other
StillPresent(before, after) ==
    /\ NotNone(before.gps_latitude) => NotNone(after.gps_latitude)
    /\ NotNone(before.gps_longitude) => NotNone(after.gps_longitude)
    /\ NotNone(before.h3_res_3) => NotNone(after.h3_res_3)
    /\ NotNone(before.h3_res_6) => NotNone(after.h3_res_6)
    /\ NotNone(before.h3_res_9) => NotNone(after.h3_res_9)
    /\ NotNone(before.h3_res_12) => NotNone(after.h3_res_12)
    /\ NotNone(before.h3_res_15) => NotNone(after.h3_res_15)
    /\ NotNone(before.perceptual_hash) => NotNone(after.perceptual_hash)

\* C24: ingestion never clears derived fields: a latitude, a longitude, a
\* spatial index or a perceptual hash that a stored record has is still present
\* after every later process_single_photo call, forced or not, whatever the
\* file at the path has become
C24_DerivedFieldsKept ==
    [][CallStep =>
         /\ Len(catalog') >= Len(catalog)
         /\ \A i \in 1..Len(catalog) :
               catalog'[i] = catalog[i] \/ StillPresent(catalog[i], catalog'[i])]_vars

\* a forced pass over a file that had become unreadable stored the record
\* again, with the coordinates, the indexes and the hash it had
C24_Witness ==
    /\ last.action = "updated" /\ last.force
    /\ last.at = changes /\ files[last.path] = Damaged
    /\ NotNone(last.pre)
    /\ has_gps(Val(last.pre)) /\ AllIndexes(Val(last.pre))
    /\ NotNone(Val(last.pre).perceptual_hash)
    /\ DerivedFields(Row(catalog, last.path)) = DerivedFields(Val(last.pre))

-----------------------------------------------------------------------------
(* C25 *)

\* the step is a call that raised
RaisedStep == CallStep /\ last'.action = "raised"

\* C25: persistence is the last step of a pass: when process_single_photo
\* raises, no record has been inserted for a new path and no stored field of an
\* existing record has been modified
C25_RaiseStoresNothing ==
    [][RaisedStep =>
         /\ HasRow(catalog', last'.path) <=> HasRow(catalog, last'.path)
         /\ HasRow(catalog, last'.path) =>
               Row(catalog', last'.path) = Row(catalog, last'.path)
         /\ Len(catalog') = Len(catalog)]_vars

\* a forced call on a stored path whose file now holds a value the save
\* refuses raised, and the record is as the call found it
C25_Witness ==
    /\ last.action = "raised" /\ last.force
    /\ last.at = changes
    /\ files[last.path].exif = "tags" /\ ~files[last.path].tags.json
    /\ ParsedBoth(files[last.path])
    /\ NotNone(last.pre)
    /\ Row(catalog, last.path) = Val(last.pre)
    /\ Val(last.pre).gps_latitude # _extract_gps_coordinates(
           _extract_exif_metadata(NewPhoto(0), files[last.path])).gps_latitude

-----------------------------------------------------------------------------
(* C26 *)

\* the primary key of the record of the path
RowId(cat, p) == CHOOSE i \in Matching(cat, p) : TRUE

\* C26 as stated: after geocode_photos has enriched a record, a forced
\* reprocess of its file, coordinates present, makes the record eligible again:
\* the next geocode_photos run with recalculate=False selects it and, whatever
\* result the call for its cell returns, stores the result's location and
\* country code and a geo_coded_at
C26_EligibleAgain ==
    [][ForcedOverEnriched =>
         LET i == RowId(catalog', last'.path)
             sel == GeoSelected(catalog', FALSE)
         IN  /\ i \in sel
             /\ \A res \in GeoResolutions :
                   /\ NotNone(H3Field(catalog'[i], res))
                   /\ \A api \in [_group_photos_by_h3(catalog', sel, res) -> GeoOutcomes] :
                         LET data == api[Val(H3Field(catalog'[i], res))]
                             after == geocode_photos(catalog', res, FALSE, api)[i]
                         IN  data.ok =>
                               /\ after.location = Some(data.addr)
                               /\ after.country_code = data.cc
                               /\ NotNone(after.geo_coded_at)]_vars

-----------------------------------------------------------------------------
(* C27 *)

\* the photos of the cells for which the call has returned a result
WithResult ==
    {i \in probe.selected :
        \E k \in 1..Len(probe.calls) :
            /\ probe.calls[k].data.ok
            /\ H3Field(probe.loaded[i], probe.res) = Some(probe.calls[k].cell)}

\* C27 as stated: whenever the reverse-geocode call returns a result for an H3
\* cell, every photo grouped in that cell is stored with the result's location
\* and a geo_coded_at timestamp and is counted in processed_photos, including
\* when the result contains no country component
C27_ResultApplied ==
    probe.op = "geocode" =>
        /\ \A k \in 1..Len(probe.calls) :
              probe.calls[k].data.ok =>
                  \A i \in GroupOf(probe.loaded, probe.selected, probe.res,
                                   probe.calls[k].cell) :
                      /\ catalog[i].location = Some(probe.calls[k].data.addr)
                      /\ catalog[i].geo_coded_at = Some("now")
        /\ probe.stats.processed_photos = Cardinality(WithResult)

-----------------------------------------------------------------------------
(* C28 *)

\* C28 as stated: when geocode_photos returns, every selected photo is
\* accounted for exactly once: processed_photos + skipped_photos = total_photos,
\* for every h3_resolution argument, also for selected photos that have
\* coordinates and no stored spatial index at that resolution
C28_SelectedAccounted ==
    (probe.op = "geocode" /\ probe.state = "returned") =>
        probe.stats.processed_photos + probe.stats.skipped_photos
            = probe.stats.total_photos

-----------------------------------------------------------------------------
(* C29 *)

\* the call failed: no result, or a result whose update raised
Failed(data) == ~data.ok \/ ApplyRaises(data)

\* C29: a failure on one H3 cell (API error, empty result or exception while
\* applying) does not stop the remaining cells from being geocoded: the run
\* calls for every cell and stores every result that applies; the stored
\* records of a failing cell are as the run found them, a geo_coded_at that was
\* absent is still absent, and geocode_photos with recalculate=False selects
\* those records again
C29_CellFailureIsolated ==
    probe.op = "geocode" =>
        /\ \A k \in 1..Len(probe.calls) :
              /\ probe.calls[k].cell = probe.cells[k]
              /\ \A i \in GroupOf(probe.loaded, probe.selected, probe.res,
                                   probe.calls[k].cell) :
                    IF Failed(probe.calls[k].data)
                    THEN /\ catalog[i] = probe.loaded[i]
                         /\ IsNone(probe.loaded[i].geo_coded_at) =>
                               /\ IsNone(catalog[i].geo_coded_at)
                               /\ i \in GeoSelected(catalog, FALSE)
                    ELSE /\ catalog[i].location = Some(probe.calls[k].data.addr)
                         /\ catalog[i].geo_coded_at = Some("now")
        /\ probe.state = "returned" => Len(probe.calls) = Len(probe.cells)

\* a run returned after the update for its first cell raised, the call for its
\* second cell gave no result and the result for its third cell was stored
C29_Witness ==
    /\ probe.op = "geocode" /\ probe.state = "returned" /\ ~probe.recalculate
    /\ Len(probe.calls) = 3
    /\ probe.calls[1].data.ok /\ ApplyRaises(probe.calls[1].data)
    /\ ~probe.calls[2].data.ok
    /\ ~Failed(probe.calls[3].data)
    /\ \E i \in probe.selected :
          /\ H3Field(catalog[i], probe.res) = Some(probe.calls[1].cell)
          /\ IsNone(catalog[i].geo_coded_at) /\ IsNone(catalog[i].location)
          /\ i \in GeoSelected(catalog, FALSE)
    /\ \E i \in probe.selected :
          /\ H3Field(catalog[i], probe.res) = Some(probe.calls[3].cell)
          /\ catalog[i].location = Some(probe.calls[3].data.addr)
          /\ NotNone(catalog[i].geo_coded_at)

-----------------------------------------------------------------------------
(* C30 *)

\* the step is the save of an unforced pass over a stored record
UnforcedSave ==
    /\ SavedStep /\ ~last'.force
    /\ HasRow(catalog, last'.path)

\* C30 as stated: when an ingestion task and a geocoding task run concurrently,
\* a non-forced ingestion pass never changes a record's enrichment fields: the
\* location, country code and geo_coded_at that geocode_photos stored between
\* the lookup and the save of the pass survive the save
C30_EnrichmentSurvivesSave ==
    [][UnforcedSave =>
         Enrichment(Row(catalog', last'.path)) = Enrichment(Row(catalog, last'.path))]_vars

====
